---- MODULE Spec2Model ----
(***************************************************************************)
(* Model of app.py (spreadsheet -> folder names -> folders on disk).       *)
(*                                                                         *)
(* A Python str is a sequence of one-character strings.  Accented letters  *)
(* are written as two-symbol elements ("i^" for i-acute, "c," for          *)
(* c-cedilla, ...): each is ONE character of the text, outside [a-z0-9].   *)
(* A spreadsheet cell is [kind |-> "str", text |-> <<...>>] or a pandas    *)
(* Timestamp [kind |-> "ts", year, month, day, hour, minute, second].      *)
(***************************************************************************)
EXTENDS Naturals, Integers, Sequences, FiniteSets, TLC

VARIABLES session, gen, fs, env, mat, prev, runs, probe, guessed

vars == <<session, gen, fs, env, mat, prev, runs, probe, guessed>>

(* ------------------------------ bounds -------------------------------- *)
MaxRows == 2
MaxCols == 3
MaxTpl == 3
MaxRuns == 3

(* --------------------------- str primitives --------------------------- *)
Range(s) == {s[i] : i \in 1..Len(s)}

Min(a, b) == IF a < b THEN a ELSE b

Digits == <<"0", "1", "2", "3", "4", "5", "6", "7", "8", "9">>

UpperAZ == <<"A", "B", "C", "D", "E", "F", "G", "H", "I", "J", "K", "L", "M",
             "N", "O", "P", "Q", "R", "S", "T", "U", "V", "W", "X", "Y", "Z">>

LowerAZ == <<"a", "b", "c", "d", "e", "f", "g", "h", "i", "j", "k", "l", "m",
             "n", "o", "p", "q", "r", "s", "t", "u", "v", "w", "x", "y", "z">>

\* str.strip() with no argument strips every whitespace character
Whitespace == {" ", "\t", "\n"}

\* code point order of the characters a start cell's text uses
CharOrder == <<"\t", "\n", " ", "-", ".", "/">> \o Digits \o <<":">> \o UpperAZ
             \o <<"_">> \o LowerAZ

Code(c) == CHOOSE i \in 1..Len(CharOrder) : CharOrder[i] = c

\* str < str
StrLess(a, b) ==
    \E k \in 1..(Min(Len(a), Len(b)) + 1) :
        /\ \A j \in 1..(k - 1) : a[j] = b[j]
        /\ IF k > Len(a) THEN k <= Len(b)
           ELSE k <= Len(b) /\ Code(a[k]) < Code(b[k])

\* s.strip(chars)
RECURSIVE LStrip(_, _)
LStrip(s, chars) ==
    IF s # <<>> /\ Head(s) \in chars THEN LStrip(Tail(s), chars) ELSE s

RECURSIVE RStrip(_, _)
RStrip(s, chars) ==
    IF s # <<>> /\ s[Len(s)] \in chars
    THEN RStrip(SubSeq(s, 1, Len(s) - 1), chars) ELSE s

Strip(s, chars) == RStrip(LStrip(s, chars), chars)

\* s.replace(old, new) for a one-character old
Replace(s, old, new) == [i \in 1..Len(s) |-> IF s[i] = old THEN new ELSE s[i]]

\* re.sub('[c]+', 'c', s): every run of c becomes one c
RECURSIVE CollapseRuns(_, _)
CollapseRuns(s, c) ==
    IF Len(s) < 2 THEN s
    ELSE IF s[1] = c /\ s[2] = c THEN CollapseRuns(Tail(s), c)
    ELSE <<s[1]>> \o CollapseRuns(Tail(s), c)

\* re.sub('[chars]', '', s)
DeleteChars(s, chars) == SelectSeq(s, LAMBDA c : c \notin chars)

\* s.split('.')[0]
RECURSIVE BeforeDot(_)
BeforeDot(s) ==
    IF s = <<>> \/ Head(s) = "." THEN <<>> ELSE <<Head(s)>> \o BeforeDot(Tail(s))

\* needle in hay
Contains(hay, needle) ==
    \E i \in 0..Len(hay) :
        /\ i + Len(needle) <= Len(hay)
        /\ \A j \in 1..Len(needle) : hay[i + j] = needle[j]

\* s.startswith(p)
StartsWith(s, p) == Len(p) <= Len(s) /\ SubSeq(s, 1, Len(p)) = p

(* ------------------------- dates and timestamps ----------------------- *)
None == [kind |-> "None"]

Timestamp(y, mo, d, h, mi, s) ==
    [kind |-> "ts", year |-> y, month |-> mo, day |-> d,
     hour |-> h, minute |-> mi, second |-> s]

StrCell(t) == [kind |-> "str", text |-> t]

IsDigit(c) == c \in Range(Digits)

DigitVal(c) == (CHOOSE i \in 1..Len(Digits) : Digits[i] = c) - 1

Num2(s, i) == DigitVal(s[i]) * 10 + DigitVal(s[i + 1])

Num4(s, i) == Num2(s, i) * 100 + Num2(s, i + 2)

IsLeap(y) == (y % 4 = 0 /\ y % 100 # 0) \/ y % 400 = 0

DaysIn(mo, y) ==
    IF mo \in {4, 6, 9, 11} THEN 30
    ELSE IF mo = 2 THEN (IF IsLeap(y) THEN 29 ELSE 28)
    ELSE 31

\* the text is DD/MM/YYYY, day before month, and names a real calendar day
IsDayFirstDate(t) ==
    /\ Len(t) = 10
    /\ t[3] = "/" /\ t[6] = "/"
    /\ \A i \in {1, 2, 4, 5, 7, 8, 9, 10} : IsDigit(t[i])
    /\ Num2(t, 4) \in 1..12
    /\ Num2(t, 1) \in 1..DaysIn(Num2(t, 4), Num4(t, 7))

\* pd.to_datetime(cell, dayfirst=True): a Timestamp, or None when it raises
ToDatetime(cell) ==
    IF cell.kind = "ts" THEN cell
    ELSE IF IsDayFirstDate(cell.text)
         THEN Timestamp(Num4(cell.text, 7), Num2(cell.text, 4), Num2(cell.text, 1),
                        0, 0, 0)
         ELSE None

TsKey(ts) == <<ts.year, ts.month, ts.day, ts.hour, ts.minute, ts.second>>

\* Timestamp < Timestamp
TsLess(a, b) ==
    \E k \in 1..6 :
        /\ \A j \in 1..(k - 1) : TsKey(a)[j] = TsKey(b)[j]
        /\ TsKey(a)[k] < TsKey(b)[k]

Pad2(n) == <<Digits[((n \div 10) % 10) + 1], Digits[(n % 10) + 1]>>

Pad4(n) == Pad2(n \div 100) \o Pad2(n % 100)

\* ts.strftime('%d-%m-%Y')
FmtData(ts) == Pad2(ts.day) \o <<"-">> \o Pad2(ts.month) \o <<"-">> \o Pad4(ts.year)

\* ts.strftime('%H-%M-%S')
FmtHora(ts) == Pad2(ts.hour) \o <<"-">> \o Pad2(ts.minute) \o <<"-">> \o Pad2(ts.second)

\* str(cell)
Str(cell) ==
    IF cell.kind = "str" THEN cell.text
    ELSE Pad4(cell.year) \o <<"-">> \o Pad2(cell.month) \o <<"-">> \o Pad2(cell.day)
         \o <<" ">> \o Pad2(cell.hour) \o <<":">> \o Pad2(cell.minute)
         \o <<":">> \o Pad2(cell.second)

(* ------------------------ processar_dados ----------------------------- *)
NA == "N/A"

Roles == {"data_inicio", "data_fim", "condutor", "cpf", "maquina"}

KnownFields == {"DATA", "HORA_INICIO", "HORA_FIM", "CONDUTOR", "CPF", "MAQUINA"}

\* a template is a sequence of tokens: <<"f", name>> is the replacement field
\* {name}, <<"c", ch>> the literal character ch
Field(name) == <<"f", name>>

Lit(ch) == <<"c", ch>>

\* template.format(**partes_nome) raises KeyError on a field that is no key
FormatRaises(template) ==
    \E i \in 1..Len(template) :
        template[i][1] = "f" /\ template[i][2] \notin KnownFields

RECURSIVE Format(_, _)
Format(template, partes) ==
    IF template = <<>> THEN <<>>
    ELSE (IF Head(template)[1] = "f" THEN partes[Head(template)[2]]
          ELSE <<Head(template)[2]>>)
         \o Format(Tail(template), partes)

\* variant: the statement collapsing runs of '-' is missing
NormalizeNameNoHyphen(nome) == Strip(CollapseRuns(nome, "_"), {"_", "-", " "})

\* the three normalisation statements after template.format
NormalizeName(nome) == Strip(CollapseRuns(CollapseRuns(nome, "_"), "-"), {"_", "-", " "})

\* the values of partes_nome for one row (the date roles are known to parse)
PartesNome(row, mapeamento) ==
    LET ini == IF mapeamento.data_inicio # NA
               THEN ToDatetime(row.cells[mapeamento.data_inicio]) ELSE None
        fim == IF mapeamento.data_fim # NA
               THEN ToDatetime(row.cells[mapeamento.data_fim]) ELSE None
    IN  [f \in KnownFields |->
          CASE f = "DATA" -> IF ini # None THEN FmtData(ini) ELSE <<>>
            [] f = "HORA_INICIO" -> IF ini # None THEN FmtHora(ini) ELSE <<>>
            [] f = "HORA_FIM" -> IF fim # None THEN FmtHora(fim) ELSE <<>>
            [] f = "CONDUTOR" ->
                 IF mapeamento.condutor # NA
                 THEN Replace(Strip(Str(row.cells[mapeamento.condutor]), Whitespace),
                              " ", "-")
                 ELSE <<>>
            [] f = "CPF" ->
                 IF mapeamento.cpf # NA
                 THEN BeforeDot(Str(row.cells[mapeamento.cpf])) ELSE <<>>
            [] f = "MAQUINA" ->
                 IF mapeamento.maquina # NA
                 THEN Strip(Str(row.cells[mapeamento.maquina]), Whitespace)
                 ELSE <<>>]

\* the exception the try block raises for this row, or "" when it raises none
RowException(row, mapeamento, template) ==
    IF mapeamento.data_inicio # NA
       /\ ToDatetime(row.cells[mapeamento.data_inicio]) = None
    THEN "data_inicio"
    ELSE IF mapeamento.data_fim # NA
            /\ ToDatetime(row.cells[mapeamento.data_fim]) = None
    THEN "data_fim"
    ELSE IF FormatRaises(template) THEN "KeyError"
    ELSE ""

\* the tuple (nome_final, dt_inicio_obj) appended for a row that raises nothing
RowItem(row, mapeamento, template) ==
    [nome |-> NormalizeName(Format(template, PartesNome(row, mapeamento))),
     dt |-> IF mapeamento.data_inicio # NA
            THEN ToDatetime(row.cells[mapeamento.data_inicio]) ELSE None]

\* the entry appended to erros for a row that raises
RowError(row, exc) == [linha |-> row.index + 2, msg |-> exc]

\* one iteration of the for loop: acc is (items_gerados, erros); src lists, for
\* each item, the index of the row it was made from
ProcessRow(acc, row, mapeamento, template) ==
    LET exc == RowException(row, mapeamento, template)
    IN  IF exc = ""
        THEN [acc EXCEPT !.items = Append(@, RowItem(row, mapeamento, template)),
                         !.src = Append(@, row.index)]
        ELSE [acc EXCEPT !.erros = Append(@, RowError(row, exc))]

\* variant: the loop ends at the first row that raises
RECURSIVE ProcessRowsAbort(_, _, _, _)
ProcessRowsAbort(acc, df, mapeamento, template) ==
    IF df = <<>> THEN acc
    ELSE IF RowException(Head(df), mapeamento, template) # ""
    THEN ProcessRow(acc, Head(df), mapeamento, template)
    ELSE ProcessRowsAbort(ProcessRow(acc, Head(df), mapeamento, template),
                          Tail(df), mapeamento, template)

RECURSIVE ProcessRows(_, _, _, _)
ProcessRows(acc, df, mapeamento, template) ==
    IF df = <<>> THEN acc
    ELSE ProcessRows(ProcessRow(acc, Head(df), mapeamento, template),
                     Tail(df), mapeamento, template)

processar_dados(df, mapeamento, template) ==
    ProcessRows([items |-> <<>>, erros |-> <<>>, src |-> <<>>],
                df, mapeamento, template)

(* ------------------------- df.sort_values ----------------------------- *)
\* comparing a str cell with a Timestamp cell raises TypeError
SortRaises(df, col) ==
    \E i, j \in 1..Len(df) : df[i].cells[col].kind # df[j].cells[col].kind

\* < on two cells of the same kind: the raw cell values are compared
RawLess(a, b) ==
    IF a.kind = "ts" THEN TsLess(a, b) ELSE StrLess(a.text, b.text)

Perms(n) ==
    {p \in [1..n -> 1..n] : \A i, j \in 1..n : i # j => p[i] # p[j]}

\* the frames df.sort_values(by=col) may return: kind='quicksort' is the
\* default, which does not promise an order among equal keys
SortValues(df, col) ==
    {[i \in 1..Len(df) |-> df[p[i]]] : p \in
        {q \in Perms(Len(df)) :
            \A i, j \in 1..Len(df) :
                i < j => ~RawLess(df[q[j]].cells[col], df[q[i]].cells[col])}}

(* ------------------- the generate-names button ------------------------ *)
NoGen ==
    [ran |-> FALSE, bound |-> FALSE, sortFailed |-> FALSE, nrows |-> 0,
     allParse |-> FALSE, order |-> <<>>, items |-> <<>>, erros |-> <<>>,
     src |-> <<>>]

\* the frames processar_dados may be handed: a sorted copy when the start
\* role is bound and the sort does not raise, the frame itself otherwise
Orders(df, mapeamento) ==
    IF mapeamento.data_inicio # NA /\ ~SortRaises(df, mapeamento.data_inicio)
    THEN SortValues(df, mapeamento.data_inicio)
    ELSE {df}

\* variant: a sort that raises falls back to the unsorted frame
GerarNomesFallback(df, mapeamento, template, df_ordenado) ==
    LET bound == mapeamento.data_inicio # NA
        failed == bound /\ SortRaises(df, mapeamento.data_inicio)
        used == IF bound /\ ~failed THEN df_ordenado ELSE df
        r == processar_dados(used, mapeamento, template)
    IN  [ran |-> TRUE, bound |-> bound, sortFailed |-> failed, nrows |-> Len(df),
         order |-> [i \in 1..Len(used) |-> used[i].index],
         allParse |-> bound /\ \A i \in 1..Len(df) :
                         ToDatetime(df[i].cells[mapeamento.data_inicio]) # None,
         items |-> r.items, erros |-> r.erros, src |-> r.src]

\* items_gerados, erros of the handler; df_ordenado is the sorted copy.  The
\* record also notes what the run was given: whether the start role was
\* bound, whether the sort raised, and the order the rows were processed in.
GerarNomes(df, mapeamento, template, df_ordenado) ==
    LET bound == mapeamento.data_inicio # NA
        failed == bound /\ SortRaises(df, mapeamento.data_inicio)
        used == IF failed THEN <<>> ELSE IF bound THEN df_ordenado ELSE df
        r == IF failed THEN [items |-> <<>>, erros |-> <<>>, src |-> <<>>]
             ELSE processar_dados(used, mapeamento, template)
    IN  [ran |-> TRUE, bound |-> bound, sortFailed |-> failed, nrows |-> Len(df),
         order |-> [i \in 1..Len(used) |-> used[i].index],
         allParse |-> bound /\ \A i \in 1..Len(df) :
                         ToDatetime(df[i].cells[mapeamento.data_inicio]) # None,
         items |-> r.items, erros |-> r.erros, src |-> r.src]

\* st.session_state['items_gerados'] after the handler ran
StoreItems(old, items_gerados) == IF items_gerados # <<>> THEN items_gerados ELSE old

(* ------------------------ is_windows_abs_path ------------------------- *)
IsLetter(c) == c \in Range(UpperAZ) \cup Range(LowerAZ)

is_windows_abs_path(caminho) ==
    LET path == Strip(caminho, {"\""})
    IN  \/ /\ Len(path) >= 3
           /\ IsLetter(path[1])
           /\ path[2] = ":"
           /\ path[3] \in {"\\", "/"}
        \/ StartsWith(path, <<"\\", "\\">>)

\* caminho_diretorio.strip().strip('"').strip("'")
CaminhoLimpo(caminho_diretorio) ==
    Strip(Strip(Strip(caminho_diretorio, Whitespace), {"\""}), {"'"})

(* ----------------------------- filesystem ----------------------------- *)
\* A directory is the tuple of its path components below and including the
\* root: <<root>>, <<root, month>>, <<root, month, leaf>>.  env.status gives
\* what the operating system answers for a root; env.blocked are the leaf
\* names it refuses to create (a file of that name, a reserved name).
RootStatus == {"ok", "readonly", "denied", "missing"}

Prefixes(path) == {SubSeq(path, 1, k) : k \in 1..Len(path)}

\* variant: os.makedirs(path) without exist_ok
MakedirsNoExistOk(dirs, e, path) ==
    IF path \in dirs THEN [err |-> "FileExistsError", fs |-> dirs]
    ELSE IF e.status[path[1]] = "denied" THEN [err |-> "PermissionError", fs |-> dirs]
    ELSE IF e.status[path[1]] = "missing" THEN [err |-> "FileNotFoundError", fs |-> dirs]
    ELSE IF Len(path) > 1 /\ e.status[path[1]] = "readonly"
    THEN [err |-> "PermissionError", fs |-> dirs]
    ELSE IF Len(path) = 3 /\ path[3] \in e.blocked
    THEN [err |-> "OSError", fs |-> dirs \cup Prefixes(SubSeq(path, 1, 2))]
    ELSE [err |-> "", fs |-> dirs \cup Prefixes(path)]

\* os.makedirs(path, exist_ok=True): [err |-> "" or the exception, fs |-> after]
Makedirs(dirs, e, path) ==
    IF path \in dirs THEN [err |-> "", fs |-> dirs]
    ELSE IF e.status[path[1]] = "denied" THEN [err |-> "PermissionError", fs |-> dirs]
    ELSE IF e.status[path[1]] = "missing" THEN [err |-> "FileNotFoundError", fs |-> dirs]
    ELSE IF Len(path) > 1 /\ e.status[path[1]] = "readonly"
    THEN [err |-> "PermissionError", fs |-> dirs]
    ELSE IF Len(path) = 3 /\ path[3] \in e.blocked
    THEN [err |-> "OSError", fs |-> dirs \cup Prefixes(SubSeq(path, 1, 2))]
    ELSE [err |-> "", fs |-> dirs \cup Prefixes(path)]

\* os.access(root, os.W_OK)
Access(dirs, e, root) == <<root>> \in dirs /\ e.status[root] = "ok"

(* -------------------- the create-folders button ----------------------- *)
\* the dict meses; 03 is written without its cedilla
Meses == <<"01-Janeiro", "02-Fevereiro", "03-Marco", "04-Abril", "05-Maio",
           "06-Junho", "07-Julho", "08-Agosto", "09-Setembro", "10-Outubro",
           "11-Novembro", "12-Dezembro">>

\* meses.get(mes_numero, "Mes_Desconhecido")
NomeMes(mes_numero) ==
    IF mes_numero \in 1..Len(Meses) THEN Meses[mes_numero] ELSE "Mes_Desconhecido"

Reserved == {"<", ">", ":", "\"", "/", "\\", "|", "?", "*"}

\* os.path.join(os.path.join(caminho_limpo, nome_mes), nome_pasta_sanitizado):
\* joining an empty last component names the month directory itself
CaminhoCompleto(root, item) ==
    LET leaf == DeleteChars(item.nome, Reserved)
        mes == NomeMes(item.dt.month)
    IN  IF leaf = <<>> THEN <<root, mes>> ELSE <<root, mes, leaf>>

\* variant: an item without a date goes to the unknown-month bucket and is
\* counted like any other
CriarItemUndated(acc, item, root, e) ==
    LET leaf == DeleteChars(item.nome, Reserved)
        mes == NomeMes(IF item.dt = None THEN 0 ELSE item.dt.month)
        path == IF leaf = <<>> THEN <<root, mes>> ELSE <<root, mes, leaf>>
        r == Makedirs(acc.fs, e, path)
    IN  IF r.err = ""
        THEN [acc EXCEPT !.fs = r.fs, !.criadas = @ + 1,
                         !.log = Append(@, <<"makedirs", path, "">>)]
        ELSE [acc EXCEPT !.fs = r.fs,
                         !.erros = Append(@, [nome |-> item.nome, motivo |-> r.err]),
                         !.log = Append(@, <<"makedirs", path, r.err>>)]

\* One iteration of the per-item loop.  acc holds the filesystem, the counter
\* pastas_criadas, the list erros_criacao and the log of filesystem calls.
CriarItem(acc, item, root, e) ==
    IF item.dt = None
    THEN [acc EXCEPT !.erros = Append(@, [nome |-> item.nome, motivo |-> "sem data"])]
    ELSE LET path == CaminhoCompleto(root, item)
             r == Makedirs(acc.fs, e, path)
         IN  IF r.err = ""
             THEN [acc EXCEPT !.fs = r.fs, !.criadas = @ + 1,
                              !.log = Append(@, <<"makedirs", path, "">>)]
             ELSE [acc EXCEPT !.fs = r.fs,
                              !.erros = Append(@, [nome |-> item.nome, motivo |-> r.err]),
                              !.log = Append(@, <<"makedirs", path, r.err>>)]

\* variant: the loop ends at the first item that fails
RECURSIVE CriarItensAbort(_, _, _, _)
CriarItensAbort(acc, items, root, e) ==
    IF items = <<>> THEN acc
    ELSE LET nxt == CriarItem(acc, Head(items), root, e)
         IN  IF Len(nxt.erros) > Len(acc.erros) THEN nxt
             ELSE CriarItensAbort(nxt, Tail(items), root, e)

RECURSIVE CriarItens(_, _, _, _)
CriarItens(acc, items, root, e) ==
    IF items = <<>> THEN acc
    ELSE CriarItens(CriarItem(acc, Head(items), root, e), Tail(items), root, e)

\* variant: the answer of the write probe is ignored
RootChecksNoProbe(caminho_limpo, dirs, e) ==
    IF ~is_windows_abs_path(caminho_limpo)
    THEN [go |-> FALSE, outcome |-> "invalid", fs |-> dirs,
          log |-> <<<<"validate", caminho_limpo, "invalid">>>>]
    ELSE LET r == Makedirs(dirs, e, <<caminho_limpo>>)
             l2 == <<<<"validate", caminho_limpo, "">>,
                     <<"makedirs", <<caminho_limpo>>, r.err>>>>
         IN  IF r.err # ""
             THEN [go |-> FALSE, outcome |-> r.err, fs |-> r.fs, log |-> l2]
             ELSE [go |-> TRUE, outcome |-> "", fs |-> r.fs,
                   log |-> Append(l2, <<"access", caminho_limpo,
                                        IF Access(r.fs, e, caminho_limpo)
                                        THEN "" ELSE "denied">>)]

\* Lines 227-236: validation, creation of the root, write probe.  go says
\* whether the per-item loop is entered; outcome names the top-level error.
RootChecks(caminho_limpo, dirs, e) ==
    IF ~is_windows_abs_path(caminho_limpo)
    THEN [go |-> FALSE, outcome |-> "invalid", fs |-> dirs,
          log |-> <<<<"validate", caminho_limpo, "invalid">>>>]
    ELSE LET r == Makedirs(dirs, e, <<caminho_limpo>>)
             l2 == <<<<"validate", caminho_limpo, "">>,
                     <<"makedirs", <<caminho_limpo>>, r.err>>>>
         IN  IF r.err # ""
             THEN [go |-> FALSE, outcome |-> r.err, fs |-> r.fs, log |-> l2]
             ELSE IF ~Access(r.fs, e, caminho_limpo)
             THEN [go |-> FALSE, outcome |-> "PermissionError", fs |-> r.fs,
                   log |-> Append(l2, <<"access", caminho_limpo, "denied">>)]
             ELSE [go |-> TRUE, outcome |-> "", fs |-> r.fs,
                   log |-> Append(l2, <<"access", caminho_limpo, "">>)]

NoMat ==
    [ran |-> FALSE, root |-> <<>>, items |-> <<>>, latest |-> <<>>,
     fsBefore |-> {}, fsAfter |-> {}, outcome |-> "", criadas |-> 0,
     erros |-> <<>>, log |-> <<>>]

\* The whole handler: items is st.session_state['items_gerados']; latest is
\* the item list of the most recent generate run (recorded, never read).
CriarPastas(caminho_diretorio, items, latest, dirs, e) ==
    LET limpo == CaminhoLimpo(caminho_diretorio)
        chk == RootChecks(limpo, dirs, e)
        acc == IF chk.go
               THEN CriarItens([fs |-> chk.fs, criadas |-> 0, erros |-> <<>>,
                                log |-> chk.log], items, limpo, e)
               ELSE [fs |-> chk.fs, criadas |-> 0, erros |-> <<>>, log |-> chk.log]
    IN  [ran |-> TRUE, root |-> limpo,
         items |-> items, latest |-> latest, fsBefore |-> dirs, fsAfter |-> acc.fs,
         outcome |-> IF chk.go THEN "done" ELSE chk.outcome,
         criadas |-> acc.criadas, erros |-> acc.erros, log |-> acc.log]

(* ------------------------- the session -------------------------------- *)
DateA == StrCell(<<"0", "1", "/", "0", "7", "/", "2", "0", "2", "4">>)

DateB == StrCell(<<"0", "2", "/", "0", "6", "/", "2", "0", "2", "4">>)

\* a dash typed where the date is missing
NotADate == StrCell(<<"-">>)

Cpf1 == StrCell(<<"1", ".", "0">>)

Cpf2 == StrCell(<<"2">>)

\* the rows a sheet is made of: text dates whose text order and calendar
\* order differ, two rows sharing a start, a start that is no date, and a
\* start the reader delivered as a Timestamp
RowCells ==
    {[Inicio |-> DateA, CPF |-> Cpf1],
     [Inicio |-> DateB, CPF |-> Cpf1],
     [Inicio |-> DateB, CPF |-> Cpf2],
     [Inicio |-> NotADate, CPF |-> Cpf2],
     [Inicio |-> Timestamp(2024, 6, 2, 8, 30, 0), CPF |-> Cpf2]}

\* a frame read from a sheet: row i of the data has index i - 1
Datasets ==
    UNION {{[i \in 1..n |-> [index |-> i - 1, cells |-> c[i]]] : c \in [1..n -> RowCells]}
           : n \in 0..MaxRows}

Unmapped == [r \in Roles |-> NA]

Mapeamentos ==
    {[Unmapped EXCEPT !.data_inicio = "Inicio", !.cpf = "CPF"],
     [Unmapped EXCEPT !.cpf = "CPF"]}

Templates ==
    {<<Field("DATA"), Lit("_"), Field("CPF")>>,
     <<Field("CPF")>>,
     <<Field("NOME"), Lit("_"), Field("CPF")>>}

Paths ==
    {<<"\"", "C", ":", "\\", "o", "\"">>,
     <<"\\", "\\", "s">>,
     <<" ", "o">>}

Roots == {CaminhoLimpo(c) : c \in {d \in Paths : is_windows_abs_path(CaminhoLimpo(d))}}

\* every answer for the drive root with no refused name, and usable roots
\* with one refused name
Envs ==
    {e \in [status : {f \in [Roots -> RootStatus] : f[<<"\\", "\\", "s">>] = "ok"},
            blocked : {{}, {<<"2">>}}] :
        e.blocked # {} => \A r \in Roots : e.status[r] = "ok"}

\* a root that exists but is read-only is on the disk from the start
InitialDirs(e) == {<<r>> : r \in {x \in Roots : e.status[x] = "readonly"}}

Init ==
    /\ session = <<>>
    /\ gen = NoGen
    /\ env \in Envs
    /\ fs = InitialDirs(env)
    /\ mat = NoMat
    /\ prev = NoMat
    /\ runs = 0
    /\ probe = <<>>
    /\ guessed = <<>>

\* lines 182-203
Generate ==
    /\ runs < MaxRuns
    /\ \E df \in Datasets, mapeamento \in Mapeamentos, template \in Templates :
         \E df_ordenado \in Orders(df, mapeamento) :
            LET r == GerarNomes(df, mapeamento, template, df_ordenado)
            IN  /\ gen' = r
                /\ session' = StoreItems(session, r.items)
    /\ runs' = runs + 1
    /\ UNCHANGED <<fs, env, mat, prev, probe, guessed>>

\* lines 205-274: the button exists once the session holds items and a
\* non-empty path was typed
Materialize ==
    /\ runs < MaxRuns
    /\ session # <<>>
    /\ \E caminho_diretorio \in Paths :
         LET r == CriarPastas(caminho_diretorio, session, gen.items, fs, env)
         IN  /\ mat' = r
             /\ fs' = r.fsAfter
    /\ prev' = mat
    /\ runs' = runs + 1
    /\ UNCHANGED <<session, gen, env, probe, guessed>>

Next == Generate \/ Materialize

Spec == Init /\ [][Next]_vars

(* ---- one generate run on every dataset, mapping and template --------- *)
InitGen ==
    /\ probe \in [df : Datasets, mapeamento : Mapeamentos, template : Templates]
    /\ session = <<>>
    /\ gen = NoGen
    /\ env = CHOOSE e \in Envs : e.blocked = {} /\ \A r \in Roots : e.status[r] = "ok"
    /\ fs = InitialDirs(env)
    /\ mat = NoMat
    /\ prev = NoMat
    /\ runs = 0
    /\ guessed = <<>>

GenerateProbe ==
    /\ \E df_ordenado \in Orders(probe.df, probe.mapeamento) :
         LET r == GerarNomes(probe.df, probe.mapeamento, probe.template, df_ordenado)
         IN  /\ gen' = r
             /\ session' = StoreItems(session, r.items)
    /\ UNCHANGED <<fs, env, mat, prev, runs, probe, guessed>>

NextGen == GenerateProbe

SpecGen == InitGen /\ [][NextGen]_vars

(* ---- the same, on sheets without two equal start cells, where the ---- *)
(* ---- order of the items is decided by the sort key alone ------------- *)
DistinctStarts(df) ==
    \A i, j \in 1..Len(df) : i # j => df[i].cells.Inicio # df[j].cells.Inicio

InitChrono ==
    /\ InitGen
    /\ DistinctStarts(probe.df)

NextChrono == GenerateProbe

SpecChrono == InitChrono /\ [][NextChrono]_vars

(* ---- materialization runs after a generate run that left items ------- *)
InitMat ==
    /\ \E df \in Datasets, mapeamento \in Mapeamentos, template \in Templates :
         \E df_ordenado \in Orders(df, mapeamento) :
            /\ gen = GerarNomes(df, mapeamento, template, df_ordenado)
            /\ gen.items # <<>>
    /\ session = StoreItems(<<>>, gen.items)
    /\ env \in Envs
    /\ fs = InitialDirs(env)
    /\ mat = NoMat
    /\ prev = NoMat
    /\ runs = 1
    /\ probe = <<>>
    /\ guessed = <<>>

NextMat == Materialize

SpecMat == InitMat /\ [][NextMat]_vars

(* --------------------------- guess_mappings --------------------------- *)
\* data in^cio, datainicio, data_inicio, start date, inicio, come^o
KeywordsDataInicio ==
    <<<<"d", "a", "t", "a", " ", "i", "n", "i^", "c", "i", "o">>,
      <<"d", "a", "t", "a", "i", "n", "i", "c", "i", "o">>,
      <<"d", "a", "t", "a", "_", "i", "n", "i", "c", "i", "o">>,
      <<"s", "t", "a", "r", "t", " ", "d", "a", "t", "e">>,
      <<"i", "n", "i", "c", "i", "o">>,
      <<"c", "o", "m", "e", "c,", "o">>>>

\* data fim, datafim, data_fim, end date, fim, t^rmino, termino
KeywordsDataFim ==
    <<<<"d", "a", "t", "a", " ", "f", "i", "m">>,
      <<"d", "a", "t", "a", "f", "i", "m">>,
      <<"d", "a", "t", "a", "_", "f", "i", "m">>,
      <<"e", "n", "d", " ", "d", "a", "t", "e">>,
      <<"f", "i", "m">>,
      <<"t", "e^", "r", "m", "i", "n", "o">>,
      <<"t", "e", "r", "m", "i", "n", "o">>>>

\* condutor, motorista, driver, nome, operador
KeywordsCondutor ==
    <<<<"c", "o", "n", "d", "u", "t", "o", "r">>,
      <<"m", "o", "t", "o", "r", "i", "s", "t", "a">>,
      <<"d", "r", "i", "v", "e", "r">>,
      <<"n", "o", "m", "e">>,
      <<"o", "p", "e", "r", "a", "d", "o", "r">>>>

\* cpf
KeywordsCpf ==
    <<<<"c", "p", "f">>>>

\* maquina, m^quina, equipamento, equipment, veiculo, viatura
KeywordsMaquina ==
    <<<<"m", "a", "q", "u", "i", "n", "a">>,
      <<"m", "a^", "q", "u", "i", "n", "a">>,
      <<"e", "q", "u", "i", "p", "a", "m", "e", "n", "t", "o">>,
      <<"e", "q", "u", "i", "p", "m", "e", "n", "t">>,
      <<"v", "e", "i", "c", "u", "l", "o">>,
      <<"v", "i", "a", "t", "u", "r", "a">>>>

mapping_keywords(map_key) ==
    CASE map_key = "data_inicio" -> KeywordsDataInicio
      [] map_key = "data_fim" -> KeywordsDataFim
      [] map_key = "condutor" -> KeywordsCondutor
      [] map_key = "cpf" -> KeywordsCpf
      [] map_key = "maquina" -> KeywordsMaquina

\* c.lower() for the letters A-Z
LowerChar(c) ==
    IF c \in Range(UpperAZ)
    THEN LowerAZ[CHOOSE i \in 1..Len(UpperAZ) : UpperAZ[i] = c]
    ELSE IF c = "I^" THEN "i^" ELSE c

\* re.sub(r'[^a-z0-9]', '', s.lower())
Normalized(s) ==
    SelectSeq([i \in 1..Len(s) |-> LowerChar(s[i])],
              LAMBDA c : c \in Range(LowerAZ) \cup Range(Digits))

\* some keyword of the list, normalised, is inside the normalised column
MatchesAny(col, keywords) ==
    \E k \in 1..Len(keywords) : Contains(Normalized(col), Normalized(keywords[k]))

\* the keys of the dict normalized_columns, in insertion order
RECURSIVE DictKeys(_)
DictKeys(columns) ==
    IF columns = <<>> THEN <<>>
    ELSE LET init == DictKeys(SubSeq(columns, 1, Len(columns) - 1))
             last == columns[Len(columns)]
         IN  IF last \in Range(init) THEN init ELSE Append(init, last)

\* variant: keywords outside, columns inside
RECURSIVE FirstMatchByKeyword(_, _)
FirstMatchByKeyword(cols, keywords) ==
    IF keywords = <<>> THEN NA
    ELSE LET hits == {i \in 1..Len(cols) : MatchesAny(cols[i], <<Head(keywords)>>)}
         IN  IF hits # {} THEN cols[CHOOSE i \in hits : \A j \in hits : i <= j]
             ELSE FirstMatchByKeyword(cols, Tail(keywords))

\* the two inner loops for one map_key: columns outside, keywords inside;
\* NA when nothing was found
RECURSIVE FirstMatch(_, _)
FirstMatch(cols, keywords) ==
    IF cols = <<>> THEN NA
    ELSE IF MatchesAny(Head(cols), keywords) THEN Head(cols)
    ELSE FirstMatch(Tail(cols), keywords)

\* guessed_map: a key only for the roles that found a column
guess_mappings(columns) ==
    LET found == [r \in Roles |-> FirstMatch(DictKeys(columns), mapping_keywords(r))]
    IN  [r \in {x \in Roles : found[x] # NA} |-> found[r]]

ColumnNames ==
    {<<"D", "a", "t", "a", " ", "I", "n", "i^", "c", "i", "o">>,
     <<"I", "n", "i", "c", "i", "o">>,
     <<"D", "a", "t", "a", " ", "F", "i", "m">>,
     <<"F", "i", "m">>,
     <<"N", "o", "m", "e", " ", "M", "o", "t", "o", "r", "i", "s", "t", "a">>,
     <<"C", "P", "F">>,
     <<"O", "b", "s">>}

ColumnLists == UNION {[1..n -> ColumnNames] : n \in 0..MaxCols}

InitGuess ==
    /\ probe \in [columns : ColumnLists]
    /\ guessed = <<>>
    /\ session = <<>>
    /\ gen = NoGen
    /\ env = CHOOSE e \in Envs : e.blocked = {} /\ \A r \in Roots : e.status[r] = "ok"
    /\ fs = InitialDirs(env)
    /\ mat = NoMat
    /\ prev = NoMat
    /\ runs = 0

\* line 148
GuessProbe ==
    /\ guessed' = <<guess_mappings(probe.columns)>>
    /\ UNCHANGED <<session, gen, fs, env, mat, prev, runs, probe>>

NextGuess == GuessProbe

SpecGuess == InitGuess /\ [][NextGuess]_vars

(* ---- one generate run on one-row sheets of awkward texts ------------- *)
NameTokens ==
    {Field("DATA"), Field("CPF"), Field("CONDUTOR"), Field("NOME"),
     Lit("_"), Lit("-"), Lit(" "), Lit("\t")}

NameTemplates == UNION {[1..n -> NameTokens] : n \in 0..MaxTpl}

NameRows ==
    {[Inicio |-> Timestamp(2024, 6, 5, 8, 30, 0), Nome |-> a, CPF |-> b] :
        a \in {StrCell(<<" ", "a", " ", " ", "b">>), StrCell(<<"_", "_">>)},
        b \in {StrCell(<<"\t", "1">>), StrCell(<<"-", "-", "7">>),
               StrCell(<<"1", ".", "0">>)}}

NameMapeamentos ==
    {Unmapped,
     [Unmapped EXCEPT !.data_inicio = "Inicio", !.condutor = "Nome", !.cpf = "CPF"]}

InitNames ==
    /\ probe \in [df : {<<[index |-> 0, cells |-> c]>> : c \in NameRows},
                  mapeamento : NameMapeamentos, template : NameTemplates]
    /\ session = <<>>
    /\ gen = NoGen
    /\ env = CHOOSE e \in Envs : e.blocked = {} /\ \A r \in Roots : e.status[r] = "ok"
    /\ fs = InitialDirs(env)
    /\ mat = NoMat
    /\ prev = NoMat
    /\ runs = 0
    /\ guessed = <<>>

NextNames == GenerateProbe

SpecNames == InitNames /\ [][NextNames]_vars

(* ======================= properties of a generate run ================= *)
\* the rows of the probed sheet, by index
ProbeRow(index) == probe.df[index + 1]

ProbeRaises(index) ==
    RowException(ProbeRow(index), probe.mapeamento, probe.template) # ""

ProbeSortRaises ==
    /\ probe.mapeamento.data_inicio # NA
    /\ SortRaises(probe.df, probe.mapeamento.data_inicio)

SeqIsInjective(q) == \A i, j \in 1..Len(q) : i # j => q[i] # q[j]

ErrorRows == [k \in 1..Len(gen.erros) |-> gen.erros[k].linha - 2]

\* C1: processar_dados handles every record exactly once, and each record
\* gives either one item or one error entry: the two lists together are as
\* long as the sheet, every row index occurs in exactly one of them, the rows
\* in the error list are exactly the rows that raise, and a row that raises
\* stops no later row.
C1_OneOutcomePerRecord ==
    (gen.ran /\ ~ProbeSortRaises) =>
        /\ Len(gen.items) + Len(gen.erros) = Len(probe.df)
        /\ Len(gen.src) = Len(gen.items)
        /\ SeqIsInjective(gen.src) /\ SeqIsInjective(ErrorRows)
        /\ Range(gen.src) \cap Range(ErrorRows) = {}
        /\ Range(gen.src) \cup Range(ErrorRows) = 0..(Len(probe.df) - 1)
        /\ \A i \in Range(ErrorRows) : ProbeRaises(i)
        /\ \A i \in Range(gen.src) : ~ProbeRaises(i)
        /\ gen.src = SelectSeq(gen.order, LAMBDA i : ~ProbeRaises(i))
        /\ ErrorRows = SelectSeq(gen.order, LAMBDA i : ProbeRaises(i))

\* a row that raises is processed first, and the row after it gives an item
C1_Witness ==
    /\ gen.ran
    /\ Len(gen.order) = 2
    /\ gen.erros # <<>> /\ gen.items # <<>>
    /\ ErrorRows[1] = gen.order[1]
    /\ gen.src[1] = gen.order[2]

C3_ChronologicalAndStable ==
    (gen.ran /\ gen.bound /\ gen.allParse /\ ~gen.sortFailed) =>
        \A i, j \in 1..Len(gen.items) :
            i < j =>
                /\ ~TsLess(gen.items[j].dt, gen.items[i].dt)
                /\ gen.items[i].dt = gen.items[j].dt => gen.src[i] < gen.src[j]

\* C8 as stated: a synthesized name has no run of two or more '_' or '-' and
\* neither begins nor ends with '_', '-' or a whitespace character.
HasRun(nome, c) == \E i \in 1..(Len(nome) - 1) : nome[i] = c /\ nome[i + 1] = c

EndsIn(nome, chars) == nome # <<>> /\ (nome[1] \in chars \/ nome[Len(nome)] \in chars)

C8_NoRunsNoEdgeWhitespace ==
    \A i \in 1..Len(gen.items) :
        /\ ~HasRun(gen.items[i].nome, "_")
        /\ ~HasRun(gen.items[i].nome, "-")
        /\ ~EndsIn(gen.items[i].nome, {"_", "-"} \cup Whitespace)

\* C8 amended: a synthesized name has no run of two or more '_' or '-' and
\* neither begins nor ends with '_', '-' or a space.
C8_NoRunsNoEdgeSpace ==
    \A i \in 1..Len(gen.items) :
        /\ ~HasRun(gen.items[i].nome, "_")
        /\ ~HasRun(gen.items[i].nome, "-")
        /\ ~EndsIn(gen.items[i].nome, {"_", "-", " "})

\* a name whose raw text had a run of '-' and separators at both ends
C8_Witness ==
    /\ gen.ran /\ Len(gen.items) = 1
    /\ LET raw == Format(probe.template, PartesNome(probe.df[1], probe.mapeamento))
       IN  /\ HasRun(raw, "-")
           /\ raw[1] = "_" /\ raw[Len(raw)] = " "
           /\ gen.items[1].nome # <<>>

(* =================== properties of a materialization run ============== *)
IsItemCall(entry) == entry[1] = "makedirs" /\ Len(entry[2]) > 1

ItemCalls == SelectSeq(mat.log, IsItemCall)

Undated(item) == item.dt = None \/ item.dt.month \notin 1..12

DatedItems == SelectSeq(mat.items, LAMBDA it : ~Undated(it))

UndatedItems == SelectSeq(mat.items, LAMBDA it : Undated(it))

\* C4: a per-record directory is attempted only after the root path passed
\* validation, the creation of the root succeeded and the write probe on the
\* root succeeded, in this order; an invalid root path leads to no directory
\* creation at all, and a root that is not writable to no per-record one.
C4_RootChecksComeFirst ==
    mat.ran =>
        /\ \A k \in 1..Len(mat.log) :
              IsItemCall(mat.log[k]) =>
                  /\ k > 3
                  /\ mat.log[1] = <<"validate", mat.root, "">>
                  /\ mat.log[2] = <<"makedirs", <<mat.root>>, "">>
                  /\ mat.log[3] = <<"access", mat.root, "">>
                  /\ mat.log[k][2][1] = mat.root
        /\ ~is_windows_abs_path(mat.root) =>
              /\ \A k \in 1..Len(mat.log) : mat.log[k][1] # "makedirs"
              /\ mat.fsAfter = mat.fsBefore
        /\ (\E k \in 1..Len(mat.log) : mat.log[k][1] = "access" /\ mat.log[k][3] # "") =>
              /\ ItemCalls = <<>>
              /\ mat.outcome = "PermissionError"
        /\ fs = mat.fsAfter

\* a run that passed the three checks and then created a directory
C4_Witness ==
    /\ mat.ran /\ mat.outcome = "done"
    /\ Len(mat.log) > 3
    /\ mat.criadas > 0

\* C5: after the root checks every item is attempted in list order whatever
\* failed before it, and each ends either in the counter or in the failure
\* list: counter + failures = number of items, the failures are the failing
\* items in list order, the filesystem calls are those of the dated items in
\* list order, and what was created stays.
C5_EveryItemOneOutcome ==
    (mat.ran /\ mat.outcome = "done") =>
        /\ mat.criadas + Len(mat.erros) = Len(mat.items)
        /\ Len(ItemCalls) = Len(DatedItems)
        /\ \A k \in 1..Len(ItemCalls) :
              ItemCalls[k][2] = CaminhoCompleto(mat.root, DatedItems[k])
        /\ mat.criadas = Cardinality({k \in 1..Len(ItemCalls) : ItemCalls[k][3] = ""})
        /\ \E f \in [1..Len(mat.erros) -> 1..Len(mat.items)] :
              /\ \A a, b \in 1..Len(mat.erros) : a < b => f[a] < f[b]
              /\ \A a \in 1..Len(mat.erros) : mat.erros[a].nome = mat.items[f[a]].nome
        /\ mat.fsBefore \subseteq mat.fsAfter
        /\ \A k \in 1..Len(ItemCalls) :
              ItemCalls[k][3] = "" => ItemCalls[k][2] \in mat.fsAfter

\* a failing item followed by an item that is created
C5_Witness ==
    /\ mat.ran /\ mat.outcome = "done"
    /\ \E i, j \in 1..Len(ItemCalls) :
          i < j /\ ItemCalls[i][3] # "" /\ ItemCalls[j][3] = ""

\* C6: an item with no start timestamp, or with a month outside 1-12, is a
\* per-item failure: one failure entry each, no count, no filesystem call,
\* and nothing is created outside the twelve month directories.
C6_UndatedItemsFail ==
    (mat.ran /\ mat.outcome = "done") =>
        /\ Len(SelectSeq(mat.erros, LAMBDA x : x.motivo = "sem data")) = Len(UndatedItems)
        /\ \A k \in 1..Len(UndatedItems) :
              \E a \in 1..Len(mat.erros) :
                  mat.erros[a] = [nome |-> UndatedItems[k].nome, motivo |-> "sem data"]
        /\ mat.criadas <= Len(DatedItems)
        /\ Len(ItemCalls) = Len(DatedItems)
        /\ \A d \in mat.fsAfter \ mat.fsBefore :
              Len(d) > 1 => d[2] \in Range(Meses)

\* items without a start timestamp went through the loop
C6_Witness ==
    /\ mat.ran /\ mat.outcome = "done"
    /\ Len(mat.items) = 2
    /\ \A i \in 1..2 : mat.items[i].dt = None
    /\ Len(mat.erros) = 2 /\ mat.criadas = 0
    /\ mat.fsAfter = mat.fsBefore \cup {<<mat.root>>}

\* C7: a second run with the same root and the same items, on the
\* filesystem the first run left, gives the same count and the same failure
\* list and changes no directory.
C7_Idempotent ==
    (prev.ran /\ mat.ran /\ prev.root = mat.root /\ prev.items = mat.items) =>
        /\ mat.outcome = prev.outcome
        /\ mat.criadas = prev.criadas
        /\ mat.erros = prev.erros
        /\ mat.fsAfter = mat.fsBefore

\* two complete runs in a row, the first of which created directories
C7_Witness ==
    /\ prev.ran /\ mat.ran /\ prev.root = mat.root /\ prev.items = mat.items
    /\ prev.outcome = "done" /\ mat.outcome = "done"
    /\ prev.criadas > 0 /\ prev.erros # <<>>
    /\ prev.fsAfter # prev.fsBefore

\* C10: the items materialization loops over are those of the most recent
\* generate run.
C10_LatestItemsMaterialized ==
    (mat.ran /\ mat.outcome = "done") => mat.items = mat.latest

(* ========================= properties of guess_mappings =============== *)
RoleMatches(col, role) == MatchesAny(col, mapping_keywords(role))

\* C9: each role is bound to the first column, in column order, whose
\* normalised name contains any normalised keyword of the role, and a role
\* no column matches has no binding.
C9_FirstMatchingColumn ==
    guessed # <<>> =>
        LET g == guessed[1]
            cols == probe.columns
        IN  \A role \in Roles :
              IF role \in DOMAIN g
              THEN \E i \in 1..Len(cols) :
                      /\ cols[i] = g[role]
                      /\ RoleMatches(cols[i], role)
                      /\ \A j \in 1..(i - 1) : ~RoleMatches(cols[j], role)
              ELSE \A i \in 1..Len(cols) : ~RoleMatches(cols[i], role)

\* a later column holds an earlier keyword of the list, and the earlier
\* column still wins; another role stays without a binding
C9_Witness ==
    /\ guessed # <<>>
    /\ Len(probe.columns) >= 2
    /\ "data_fim" \in DOMAIN guessed[1]
    /\ guessed[1]["data_fim"] = probe.columns[1]
    /\ ~MatchesAny(probe.columns[1], <<KeywordsDataFim[1]>>)
    /\ MatchesAny(probe.columns[2], <<KeywordsDataFim[1]>>)
    /\ "cpf" \notin DOMAIN guessed[1]

====
